---- MODULE Spec2Model ----
(***************************************************************************)
(* Model of the CH32V003 flash storage driver (src/ch32v003_flash.h) and   *)
(* of the flash controller it drives.                                      *)
(*                                                                         *)
(* The driver is single threaded: the caller sits at pc = "idle", calls    *)
(* one public function, the function runs register access by register      *)
(* access (one pc value per source line that touches the controller), and  *)
(* ends at pc = "done" with its frame (arguments, return value, the values *)
(* it saw on entry, the bus writes it issued) still visible; Return brings *)
(* the caller back to "idle".  The controller finishes the operation it    *)
(* was started on in its own step (HwComplete), which is what clears the   *)
(* busy flag the driver spins on.                                          *)
(***************************************************************************)
EXTENDS Integers, Naturals, Sequences, FiniteSets, TLC

----------------------------------------------------------------------------
(* Device geometry and link-time layout *)

\* Base address of the main flash (0x08000000).
FLASH_BASE == 134217728

\* Size of a page, the unit of erase, in bytes.
PageSize == 64

\* Number of pages of the main flash (16K in all).
FlashPages == 256

\* Pages reserved at the end of the main flash for nonvolatile storage.
NvPages == 2

\* Total size of the main flash in bytes.
FlashCapacity == FlashPages * PageSize

\* What the linker script gives FLASH_LENGTH_OVERRIDE for NvPages reserved pages.
DefaultLengthOverride == FlashCapacity - NvPages * PageSize

\* Content of an erased 16-bit word.
ErasedWord == (2 ^ 16) - 1

Pow2(n) == 2 ^ n

U8(x) == x % Pow2(8)

U16(x) == x % Pow2(16)

\* x as a uint32_t: x less the multiples of 2^32 in it, taken 16 bits at a time.
U32(x) ==
    IF (x \div Pow2(16)) < Pow2(16) THEN x
    ELSE x - (((x \div Pow2(16)) \div Pow2(16)) * Pow2(16)) * Pow2(16)

\* Bitwise complement of a C int, (~x).
IntNot(x) == (0 - x) - 1

RECURSIVE And16Bits(_, _, _)
And16Bits(a, b, n) ==
    IF n = 0 THEN 0
    ELSE (IF a % 2 = 1 /\ b % 2 = 1 THEN 1 ELSE 0) + 2 * And16Bits(a \div 2, b \div 2, n - 1)

\* Bitwise and of two 16-bit words.
And16(a, b) == And16Bits(a, b, 16)

----------------------------------------------------------------------------
(* State *)

VARIABLES
    FLASH_LENGTH_OVERRIDE, \* the linker symbol: length of flash left to the program
    ctlr,                  \* FLASH->CTLR, the set of its bits that are set
    statr,                 \* FLASH->STATR, the set of its bits that are set
    addrReg,               \* FLASH->ADDR
    flash,                 \* the reserved pages: word address -> 16-bit word
    ob,                    \* the option byte block: cell -> raw 16-bit cell
    hw,                    \* the operation the controller is busy with
    pc,                    \* where the driver is
    call,                  \* the frame of the running (or just finished) call
    boots,                 \* power cycles so far
    saved                  \* what the application's last write bracket stored, while
                           \* the flash has stayed locked since

vars == <<FLASH_LENGTH_OVERRIDE, ctlr, statr, addrReg, flash, ob, hw, pc, call, boots, saved>>

OBCells == {"USER", "RDPR", "WRPR1", "WRPR0", "Data1", "Data0"}

\* Word addresses of the reserved pages.
NvWordAddrs == {FLASH_BASE + DefaultLengthOverride + 2 * i : i \in 0 .. (NvPages * (PageSize \div 2) - 1)}

\* Word addresses of the page that starts at a.
PageWords(a) == {w \in NvWordAddrs : a <= w /\ w < a + PageSize}

\* Start of the page that holds address a.
PageOf(a) == a - (a % PageSize)

----------------------------------------------------------------------------
(* Address calculation *)

\* FLASH_PRECALCULATE_NONVOLATILE_ADDR(n), with len the value of the linker symbol:
\* uint32_t arithmetic on FLASH_BASE + (uint32_t)len + n.
FLASH_PRECALCULATE_NONVOLATILE_ADDR_of(len, n) == U32(FLASH_BASE + U32(len) + n)

FLASH_PRECALCULATE_NONVOLATILE_ADDR(n) ==
    FLASH_PRECALCULATE_NONVOLATILE_ADDR_of(FLASH_LENGTH_OVERRIDE, n)

\* The function with the length narrowed to uint8_t instead of uint16_t.
flash_calculate_runtime_address_narrow(len, byte_number) ==
    U32(FLASH_BASE + U8(len) + U16(byte_number))

\* The function with the "+ 1" of the header's worked example.
flash_calculate_runtime_address_plus_one(len, byte_number) ==
    U32(FLASH_BASE + U16(len) + 1 + U16(byte_number))

\* flash_calculate_runtime_address(uint16_t byte_number), with len the linker symbol.
flash_calculate_runtime_address_of(len, byte_number) ==
    U32(FLASH_BASE + U16(len) + U16(byte_number))

flash_calculate_runtime_address(byte_number) ==
    flash_calculate_runtime_address_of(FLASH_LENGTH_OVERRIDE, byte_number)

----------------------------------------------------------------------------
(* Option byte cells *)

\* A cell as the controller stores it: IIIIIIII DDDDDDDD, I the inverse of D.
Encode(b) == U8(IntNot(b)) * Pow2(8) + b

ValidCell(raw) == raw \div Pow2(8) = U8(IntNot(raw % Pow2(8)))

\* flash_dechecksum comparing the inverted high byte as an int, not as a uint8_t.
flash_dechecksum_untruncated(input) ==
    LET originalData == U8(input)
        invertedData == IntNot(input \div Pow2(8))
    IN  IF invertedData = originalData THEN originalData ELSE 0

\* flash_dechecksum returning the low byte without the comparison.
flash_dechecksum_unchecked(input) == U8(input)

flash_dechecksum(input) ==
    LET originalData == U8(input)
        invertedData == U8(IntNot(input \div Pow2(8)))
    IN  IF invertedData = originalData THEN originalData ELSE 0

flash_read_option_byte(cell) == flash_dechecksum(ob[cell])

flash_read_option_byte_DATA_16 ==
    flash_read_option_byte("Data1") * Pow2(8) + flash_read_option_byte("Data0")

flash_read_16_bits(addr) == flash[addr]

----------------------------------------------------------------------------
(* Status flags *)

flash_is_busy == "BSY" \in statr

flash_is_done == "EOP" \in statr

flash_is_ERR_WRPRT == "WRPRTERR" \in statr

----------------------------------------------------------------------------
(* The flash controller *)

FLASH_KEY1 == "KEY1"

FLASH_KEY2 == "KEY2"

NoOp == [kind |-> "none", addr |-> 0, cell |-> "", data |-> 0]

\* A key register opens its lock when it is written KEY1 and then KEY2.
HwKeysOpen(keys) == keys = <<FLASH_KEY1, FLASH_KEY2>>

\* The value CTLR takes when v is written to it while it holds c: a locked
\* controller keeps its control register as it is.
HwCtlrWrite(c, v) == IF "LOCK" \in c THEN c ELSE v

\* The operation the controller starts when CTLR, holding old, is written to c
\* with the start bit newly set: the erase of the page at FLASH->ADDR under
\* page erase, the erase of the option byte block under option erase once the
\* option bytes are unlocked.
HwStart(old, c, a) ==
    IF "STRT" \notin c \/ "STRT" \in old THEN NoOp
    ELSE IF "PER" \in c THEN [NoOp EXCEPT !.kind = "page_erase", !.addr = a]
    ELSE IF "OPTER" \in c /\ "OBWRE" \in c THEN [NoOp EXCEPT !.kind = "ob_erase"]
    ELSE NoOp

\* The operation a 16-bit store to the main flash starts: programming, when
\* programming is enabled on an unlocked controller; otherwise none.
HwStoreFlash(c, a, d) ==
    IF "PG" \in c /\ "LOCK" \notin c
    THEN [NoOp EXCEPT !.kind = "program", !.addr = a, !.data = d]
    ELSE NoOp

\* The operation a 16-bit store to an option byte cell starts.
HwStoreOB(c, cell, d) ==
    IF "OPTPG" \in c /\ "OBWRE" \in c /\ "LOCK" \notin c
    THEN [NoOp EXCEPT !.kind = "ob_program", !.cell = cell, !.data = d]
    ELSE NoOp

\* The main flash after the erase of the page that holds a.
HwErasePage(f, a) ==
    [w \in DOMAIN f |-> IF w \in PageWords(PageOf(a)) THEN ErasedWord ELSE f[w]]

\* What a word can hold after d is programmed over old: d on an erased word;
\* on a word already programmed the controller either refuses or clears bits.
HwProgramOutcomes(old, d) ==
    IF old = ErasedWord THEN {d} ELSE {old, And16(old, d)}

\* The option byte block after its erase.
HwEraseOB(o) == [c \in DOMAIN o |-> ErasedWord]

\* The cell the controller stores for the halfword d: the data byte with its
\* inverse above it; a cell that is not erased stays as it is.
HwProgramCell(old, d) == IF old = ErasedWord THEN Encode(U8(d)) ELSE old

\* STATR after v is written to it while it holds s: the done flag is cleared
\* by the write that has its bit set; the busy flag is the controller's.
HwStatrWrite(s, v) == s \ (v \cap {"EOP"})

\* The controller finishes the operation it is busy with.
HwComplete ==
    /\ hw.kind # "none"
    /\ \/ /\ hw.kind = "page_erase"
          /\ flash' = HwErasePage(flash, hw.addr)
          /\ ob' = ob
       \/ /\ hw.kind = "program"
          /\ \E v \in HwProgramOutcomes(flash[hw.addr], hw.data) :
                flash' = [flash EXCEPT ![hw.addr] = v]
          /\ ob' = ob
       \/ /\ hw.kind = "ob_erase"
          /\ ob' = HwEraseOB(ob)
          /\ flash' = flash
       \/ /\ hw.kind = "ob_program"
          /\ ob' = [ob EXCEPT ![hw.cell] = HwProgramCell(@, hw.data)]
          /\ flash' = flash
    /\ hw' = NoOp
    /\ statr' = (statr \ {"BSY"}) \cup {"EOP"}
    /\ ctlr' = ctlr \ {"STRT"}
    /\ UNCHANGED <<FLASH_LENGTH_OVERRIDE, boots, saved, addrReg, pc, call>>

----------------------------------------------------------------------------
(* Bus accesses of the driver *)

NoCall == [op |-> "none", addr |-> 0, data |-> 0, cell |-> "", ret |-> 0,
           pre |-> <<>>, tmp |-> <<>>, trace |-> <<>>, todo |-> <<>>]

\* Nothing saved by a write bracket.
NoSave == [addr |-> 0, data |-> 0, valid |-> FALSE]

\* The frame of a call on entry: its arguments and what it found.
Enter(op, addr, data) ==
    [op |-> op, addr |-> addr, data |-> data, cell |-> "", ret |-> 0,
     pre |-> [ctlr |-> ctlr, flash |-> flash, ob |-> ob],
     tmp |-> <<>>, trace |-> <<>>, todo |-> <<>>]

\* Where a function goes when it returns: to the caller, or to the next call
\* of the function that called it.
Continue == IF call.todo = <<>> THEN "done" ELSE "next"

Logged(entry) == [call EXCEPT !.trace = Append(@, entry)]

\* FLASH->CTLR = v
WriteCTLR(v, next) ==
    LET c == HwCtlrWrite(ctlr, v)
        started == HwStart(ctlr, c, addrReg)
    IN  /\ ctlr' = IF started.kind = "none" THEN c \ ({"STRT"} \ ctlr) ELSE c
        /\ hw' = IF started.kind = "none" THEN hw ELSE started
        /\ statr' = IF started.kind = "none" THEN statr ELSE statr \cup {"BSY"}
        /\ call' = Logged(<<"CTLR", v>>)
        /\ pc' = next
        /\ UNCHANGED <<FLASH_LENGTH_OVERRIDE, boots, saved, addrReg, flash, ob>>

\* *(uint16_t*)addr = d
StoreFlash(a, d, next) ==
    LET started == HwStoreFlash(ctlr, a, d)
    IN  /\ hw' = IF started.kind = "none" THEN hw ELSE started
        /\ statr' = IF started.kind = "none" THEN statr ELSE statr \cup {"BSY"}
        /\ call' = Logged(<<"store", a, d>>)
        /\ pc' = next
        /\ UNCHANGED <<FLASH_LENGTH_OVERRIDE, boots, saved, ctlr, addrReg, flash, ob>>

\* OB->cell = d
StoreOB(cell, d, next) ==
    LET started == HwStoreOB(ctlr, cell, d)
    IN  /\ hw' = IF started.kind = "none" THEN hw ELSE started
        /\ statr' = IF started.kind = "none" THEN statr ELSE statr \cup {"BSY"}
        /\ call' = Logged(<<"OB", cell, d>>)
        /\ pc' = next
        /\ UNCHANGED <<FLASH_LENGTH_OVERRIDE, boots, saved, ctlr, addrReg, flash, ob>>

hwvars == <<ctlr, statr, addrReg, flash, ob, hw>>

----------------------------------------------------------------------------
(* Inputs of the calls *)

\* 16-bit values the caller writes (0xBEEF, 0x0000).
Data16 == {48879, 0}

\* Offsets into the reserved region the caller programs and reads.
ProgOffsets == {0, 10} \cup {PageSize * k : k \in 1 .. (NvPages - 1)}

\* Offsets of the pages of the reserved region.
PageOffsets == {PageSize * k : k \in 0 .. (NvPages - 1)}

\* Byte pairs <<byte1, byte0>> the caller packs into one halfword.
BytePairs == {<<190, 239>>, <<0, 0>>}

\* A float as the four bytes it occupies in memory, lowest address first:
\* 0xDEADBEEF and 0xFFFF0000 (a NaN whose upper half is the erased word).
FloatValues == {<<239, 190, 173, 222>>, <<0, 0, 255, 255>>}

\* Offsets at which the caller keeps a float.
FloatOffsets == {0}

\* Option byte configurations a device can hold: every cell valid.
LegalObConfigs ==
    { [USER |-> Encode(247), RDPR |-> Encode(165), WRPR1 |-> Encode(255),
       WRPR0 |-> Encode(255), Data1 |-> Encode(255), Data0 |-> Encode(255)],
      [USER |-> Encode(215), RDPR |-> Encode(165), WRPR1 |-> Encode(127),
       WRPR0 |-> Encode(254), Data1 |-> Encode(18), Data0 |-> Encode(0)] }

----------------------------------------------------------------------------
(* The driver *)

\* After reset the controller is locked and idle; the reserved pages are erased.
Init ==
    /\ FLASH_LENGTH_OVERRIDE = DefaultLengthOverride
    /\ ctlr = {"LOCK"}
    /\ statr = {}
    /\ addrReg = 0
    /\ flash = [w \in NvWordAddrs |-> ErasedWord]
    /\ ob \in LegalObConfigs
    /\ hw = NoOp
    /\ pc = "idle"
    /\ call = NoCall
    /\ boots = 0
    /\ saved = NoSave

\* A function that touches no register and returns r.
Returns(op, addr, r) ==
    /\ pc = "idle"
    /\ call' = [Enter(op, addr, 0) EXCEPT !.ret = r]
    /\ pc' = "done"
    /\ UNCHANGED <<FLASH_LENGTH_OVERRIDE, boots, saved, hwvars>>

\* The caller takes the result of the finished call.
Return ==
    /\ pc = "done"
    /\ pc' = "idle"
    /\ call' = NoCall
    /\ UNCHANGED <<FLASH_LENGTH_OVERRIDE, boots, saved, hwvars>>

\* flash_unlock writing its keys to the option byte key register as well.
flash_unlock_both ==
    /\ pc = "idle"
    /\ ctlr' = IF HwKeysOpen(<<FLASH_KEY1, FLASH_KEY2>>)
               THEN (ctlr \ {"LOCK"}) \cup {"OBWRE"} ELSE ctlr
    /\ call' = [Enter("flash_unlock", 0, 0) EXCEPT
                   !.trace = <<<<"KEYR", FLASH_KEY1>>, <<"OBKEYR", FLASH_KEY1>>,
                               <<"KEYR", FLASH_KEY2>>, <<"OBKEYR", FLASH_KEY2>>>>]
    /\ pc' = "done"
    /\ saved' = NoSave
    /\ UNCHANGED <<FLASH_LENGTH_OVERRIDE, boots, statr, addrReg, flash, ob, hw>>

flash_unlock ==
    /\ pc = "idle"
    /\ ctlr' = IF HwKeysOpen(<<FLASH_KEY1, FLASH_KEY2>>) THEN ctlr \ {"LOCK"} ELSE ctlr
    /\ call' = [Enter("flash_unlock", 0, 0) EXCEPT
                   !.trace = <<<<"KEYR", FLASH_KEY1>>, <<"KEYR", FLASH_KEY2>>>>]
    /\ pc' = "done"
    /\ saved' = NoSave
    /\ UNCHANGED <<FLASH_LENGTH_OVERRIDE, boots, statr, addrReg, flash, ob, hw>>

flash_unlock_option_bytes ==
    /\ pc = "idle"
    /\ ctlr' = IF HwKeysOpen(<<FLASH_KEY1, FLASH_KEY2>>) THEN ctlr \cup {"OBWRE"} ELSE ctlr
    /\ call' = [Enter("flash_unlock_option_bytes", 0, 0) EXCEPT
                   !.trace = <<<<"OBKEYR", FLASH_KEY1>>, <<"OBKEYR", FLASH_KEY2>>>>]
    /\ pc' = "done"
    /\ UNCHANGED <<FLASH_LENGTH_OVERRIDE, boots, saved, statr, addrReg, flash, ob, hw>>

\* flash_lock masking CTLR with the lock bit (&=) instead of setting it.
flash_lock_masking ==
    /\ pc = "idle"
    /\ ctlr' = ctlr \cap {"LOCK"}
    /\ call' = [Enter("flash_lock", 0, 0) EXCEPT !.trace = <<<<"CTLR", ctlr \cap {"LOCK"}>>>>]
    /\ pc' = "done"
    /\ UNCHANGED <<FLASH_LENGTH_OVERRIDE, boots, saved, statr, addrReg, flash, ob, hw>>

\* FLASH->CTLR |= FLASH_CTLR_LOCK: the lock bit can always be set.
flash_lock ==
    /\ pc = "idle"
    /\ ctlr' = ctlr \cup {"LOCK"}
    /\ call' = [Enter("flash_lock", 0, 0) EXCEPT !.trace = <<<<"CTLR", ctlr \cup {"LOCK"}>>>>]
    /\ pc' = "done"
    /\ UNCHANGED <<FLASH_LENGTH_OVERRIDE, boots, saved, statr, addrReg, flash, ob, hw>>

\* The lock check that opens flash_erase_page and flash_program_16:
\* where the function goes on when the lock bit is set, and when it is clear.
LockCheck(locked, unlocked) == IF "LOCK" \in ctlr THEN locked ELSE unlocked

\* while(flash_is_busy()) {}: the driver leaves the loop once the flag is clear.
AfterWait ==
    [erase_wait1 |-> "erase_per", erase_wait2 |-> "erase_per_reset",
     prog_wait1 |-> "prog_pg", prog_wait2 |-> "prog_pg_reset",
     wob_wait0 |-> "wob_backup", obe_wait |-> "obe_opter_reset",
     wob_wait1 |-> "wob_rdpr", wob_wait2 |-> "wob_wrpr0", wob_wait3 |-> "wob_wrpr1",
     wob_wait4 |-> "wob_data1", wob_wait5 |-> "wob_data0", wob_wait6 |-> "wob_optpg_reset"]

\* The loop written while(!flash_is_busy()) {}: left once the flag is set.
flash_wait_until_not_busy_inverted ==
    /\ pc \in DOMAIN AfterWait
    /\ flash_is_busy
    /\ pc' = AfterWait[pc]
    /\ call' = Logged(<<"wait_until_not_busy">>)
    /\ UNCHANGED <<FLASH_LENGTH_OVERRIDE, boots, saved, hwvars>>

flash_wait_until_not_busy ==
    /\ pc \in DOMAIN AfterWait
    /\ ~flash_is_busy
    /\ pc' = AfterWait[pc]
    /\ call' = Logged(<<"wait_until_not_busy">>)
    /\ UNCHANGED <<FLASH_LENGTH_OVERRIDE, boots, saved, hwvars>>

flash_wait_until_done ==
    /\ pc = "idle"
    /\ call' = Enter("flash_wait_until_done", 0, 0)
    /\ pc' = "wud_wait"
    /\ UNCHANGED <<FLASH_LENGTH_OVERRIDE, boots, saved, hwvars>>

\* The loop of flash_wait_until_done left as soon as the busy flag is clear.
flash_wait_until_done_loop_not_busy ==
    /\ pc = "wud_wait"
    /\ ~flash_is_busy
    /\ pc' = "wud_clear"
    /\ call' = [call EXCEPT !.tmp = [statr |-> statr],
                            !.trace = Append(@, <<"wait_until_done">>)]
    /\ UNCHANGED <<FLASH_LENGTH_OVERRIDE, boots, saved, hwvars>>

\* while(flash_is_busy() || !flash_is_done()) {}: the driver leaves the loop
\* once the busy flag is clear and the done flag is set.
flash_wait_until_done_loop ==
    /\ pc = "wud_wait"
    /\ ~(flash_is_busy \/ ~flash_is_done)
    /\ pc' = "wud_clear"
    /\ call' = [call EXCEPT !.tmp = [statr |-> statr],
                            !.trace = Append(@, <<"wait_until_done">>)]
    /\ UNCHANGED <<FLASH_LENGTH_OVERRIDE, boots, saved, hwvars>>

\* FLASH->STATR |= FLASH_STATR_EOP
flash_is_done_clear ==
    /\ pc = "wud_clear"
    /\ statr' = HwStatrWrite(statr, statr \cup {"EOP"})
    /\ call' = Logged(<<"STATR", statr \cup {"EOP"}>>)
    /\ pc' = "done"
    /\ UNCHANGED <<FLASH_LENGTH_OVERRIDE, boots, saved, ctlr, addrReg, flash, ob, hw>>

\* flash_erase_page opening the lock itself instead of returning.
flash_erase_page_unlocking(start_addr) ==
    /\ pc = "idle"
    /\ call' = Enter("flash_erase_page", start_addr, 0)
    /\ ctlr' = ctlr \ {"LOCK"}
    /\ pc' = "erase_wait1"
    /\ UNCHANGED <<FLASH_LENGTH_OVERRIDE, boots, saved, statr, addrReg, flash, ob, hw>>

flash_erase_page(start_addr) ==
    /\ pc = "idle"
    /\ call' = Enter("flash_erase_page", start_addr, 0)
    /\ pc' = LockCheck("done", "erase_wait1")
    /\ UNCHANGED <<FLASH_LENGTH_OVERRIDE, boots, saved, hwvars>>

\* flash_erase_page setting the start bit together with the page erase bit.
flash_erase_page_PER_with_start ==
    pc = "erase_per" /\ WriteCTLR(ctlr \cup {"PER", "STRT"}, "erase_addr")

flash_erase_page_PER == pc = "erase_per" /\ WriteCTLR(ctlr \cup {"PER"}, "erase_addr")

\* flash_erase_page leaving FLASH->ADDR as it was.
flash_erase_page_ADDR_stale ==
    /\ pc = "erase_addr"
    /\ pc' = "erase_strt"
    /\ UNCHANGED <<FLASH_LENGTH_OVERRIDE, boots, saved, hwvars, call>>

\* flash_erase_page writing the address of the page after start_addr.
flash_erase_page_ADDR_next_page ==
    /\ pc = "erase_addr"
    /\ addrReg' = call.addr + PageSize
    /\ call' = Logged(<<"ADDR", call.addr + PageSize>>)
    /\ pc' = "erase_strt"
    /\ UNCHANGED <<FLASH_LENGTH_OVERRIDE, boots, saved, ctlr, statr, flash, ob, hw>>

flash_erase_page_ADDR ==
    /\ pc = "erase_addr"
    /\ addrReg' = call.addr
    /\ call' = Logged(<<"ADDR", call.addr>>)
    /\ pc' = "erase_strt"
    /\ UNCHANGED <<FLASH_LENGTH_OVERRIDE, boots, saved, ctlr, statr, flash, ob, hw>>

flash_erase_page_STRT == pc = "erase_strt" /\ WriteCTLR(ctlr \cup {"STRT"}, "erase_wait2")

\* flash_erase_page resetting the start bit where it should reset PER.
flash_erase_page_PER_Reset_wrong_bit ==
    pc = "erase_per_reset" /\ WriteCTLR(ctlr \ {"STRT"}, Continue)

flash_erase_page_PER_Reset == pc = "erase_per_reset" /\ WriteCTLR(ctlr \ {"PER"}, Continue)

flash_program_16(addr, data) ==
    /\ pc = "idle"
    /\ call' = Enter("flash_program_16", addr, data)
    /\ pc' = LockCheck("done", "prog_wait1")
    /\ UNCHANGED <<FLASH_LENGTH_OVERRIDE, boots, saved, hwvars>>

flash_program_16_PG == pc = "prog_pg" /\ WriteCTLR(ctlr \cup {"PG"}, "prog_store")

\* flash_program_16 storing one halfword further on.
flash_program_16_store_next_word ==
    pc = "prog_store" /\ StoreFlash(call.addr + 2, call.data, "prog_wait2")

\* flash_program_16 resetting PG right after the store, without the wait.
flash_program_16_store_nowait ==
    pc = "prog_store" /\ StoreFlash(call.addr, call.data, "prog_pg_reset")

flash_program_16_store == pc = "prog_store" /\ StoreFlash(call.addr, call.data, "prog_wait2")

flash_program_16_PG_Reset == pc = "prog_pg_reset" /\ WriteCTLR(ctlr \ {"PG"}, Continue)

\* flash_program_16(addr, (byte1 << 8) + byte0)
flash_program_2x8_bits(addr, byte1, byte0) ==
    /\ pc = "idle"
    /\ call' = [Enter("flash_program_2x8_bits", addr, 0) EXCEPT
                   !.tmp = [byte1 |-> byte1, byte0 |-> byte0],
                   !.todo = <<[fn |-> "flash_program_16", addr |-> addr,
                               data |-> U16(byte1 * Pow2(8) + byte0)]>>]
    /\ pc' = "next"
    /\ UNCHANGED <<FLASH_LENGTH_OVERRIDE, boots, saved, hwvars>>

\* union float_2xuint16t: u16[i] read from the four bytes of f (little endian).
\* The float with its halves taken from each other's place.
float_2xuint16t_u16_swapped(f) == <<f[3] + Pow2(8) * f[4], f[1] + Pow2(8) * f[2]>>

float_2xuint16t_u16(f) == <<f[1] + Pow2(8) * f[2], f[3] + Pow2(8) * f[4]>>

\* union float_2xuint16t: f read from the four bytes of u16[0], u16[1].
float_2xuint16t_f(u16) ==
    <<u16[1] % Pow2(8), u16[1] \div Pow2(8), u16[2] % Pow2(8), u16[2] \div Pow2(8)>>

\* conv.f = value; flash_program_16(addr, conv.u16[0]); flash_program_16(addr + 2, conv.u16[1])
flash_program_float_value(addr, value) ==
    /\ pc = "idle"
    /\ call' = [Enter("flash_program_float_value", addr, 0) EXCEPT
                   !.tmp = [addr |-> addr, value |-> value],
                   !.todo = <<[fn |-> "flash_program_16", addr |-> addr,
                               data |-> float_2xuint16t_u16(value)[1]],
                              [fn |-> "flash_program_16", addr |-> addr + 2,
                               data |-> float_2xuint16t_u16(value)[2]]>>]
    /\ pc' = "next"
    /\ UNCHANGED <<FLASH_LENGTH_OVERRIDE, boots, saved, hwvars>>

\* conv.u16[0] = ((uint16_t*)addr)[0]; conv.u16[1] = ((uint16_t*)addr)[1]; return conv.f
flash_read_float_value(addr) ==
    float_2xuint16t_f(<<flash_read_16_bits(addr), flash_read_16_bits(addr + 2)>>)

\* A function calls the next of the functions it is made of, with that call's
\* arguments.
SubCall ==
    LET h == Head(call.todo)
        rest == Tail(call.todo)
        back == IF rest = <<>> THEN "done" ELSE "next"
    IN  /\ pc = "next"
        /\ call' = [call EXCEPT
                       !.addr = h.addr, !.data = h.data, !.todo = rest,
                       !.trace = IF h.fn = "flash_unlock"
                                 THEN @ \o <<<<"KEYR", FLASH_KEY1>>, <<"KEYR", FLASH_KEY2>>>>
                                 ELSE IF h.fn = "flash_lock"
                                 THEN Append(@, <<"CTLR", ctlr \cup {"LOCK"}>>)
                                 ELSE @]
        /\ ctlr' = IF h.fn = "flash_unlock" THEN ctlr \ {"LOCK"}
                   ELSE IF h.fn = "flash_lock" THEN ctlr \cup {"LOCK"}
                   ELSE ctlr
        /\ pc' = IF h.fn = "flash_erase_page" THEN LockCheck(back, "erase_wait1")
                 ELSE IF h.fn = "flash_program_16" THEN LockCheck(back, "prog_wait1")
                 ELSE back
        /\ saved' = IF h.fn = "flash_unlock" THEN NoSave
                    ELSE IF h.fn = "flash_lock" /\ call.op = "main_write"
                    THEN [addr |-> call.tmp.addr, data |-> call.tmp.value, valid |-> TRUE]
                    ELSE saved
        /\ UNCHANGED <<FLASH_LENGTH_OVERRIDE, boots, statr, addrReg, flash, ob, hw>>

\* The write bracket programming the variable before it erases the page.
main_write_program_first(start_addr, var_addr, value) ==
    /\ pc = "idle"
    /\ call' = [Enter("main_write", var_addr, value) EXCEPT
                   !.tmp = [page |-> start_addr, addr |-> var_addr, value |-> value],
                   !.todo = <<[fn |-> "flash_unlock", addr |-> 0, data |-> 0],
                              [fn |-> "flash_program_16", addr |-> var_addr, data |-> value],
                              [fn |-> "flash_erase_page", addr |-> start_addr, data |-> 0],
                              [fn |-> "flash_lock", addr |-> 0, data |-> 0]>>]
    /\ pc' = "next"
    /\ UNCHANGED <<FLASH_LENGTH_OVERRIDE, boots, saved, hwvars>>

\* The write bracket of main: flash_unlock(); flash_erase_page(start_addr);
\* flash_program_16(var_addr, value); flash_lock().
main_write(start_addr, var_addr, value) ==
    /\ pc = "idle"
    /\ call' = [Enter("main_write", var_addr, value) EXCEPT
                   !.tmp = [page |-> start_addr, addr |-> var_addr, value |-> value],
                   !.todo = <<[fn |-> "flash_unlock", addr |-> 0, data |-> 0],
                              [fn |-> "flash_erase_page", addr |-> start_addr, data |-> 0],
                              [fn |-> "flash_program_16", addr |-> var_addr, data |-> value],
                              [fn |-> "flash_lock", addr |-> 0, data |-> 0]>>]
    /\ pc' = "next"
    /\ UNCHANGED <<FLASH_LENGTH_OVERRIDE, boots, saved, hwvars>>

\* The backup taken from a table of factory values instead of from the cells.
OptionByteBackup_factory(o, data) ==
    [user |-> Encode(247), rdpr |-> Encode(165), wrpr1 |-> Encode(127), wrpr0 |-> Encode(254),
     data1 |-> (data \div Pow2(8)) % Pow2(8), data0 |-> data % Pow2(8)]

\* The backup with WRPR0 and WRPR1 taken from each other's cell.
OptionByteBackup_wrpr_swapped(o, data) ==
    [user |-> o["USER"], rdpr |-> o["RDPR"], wrpr1 |-> o["WRPR0"], wrpr0 |-> o["WRPR1"],
     data1 |-> (data \div Pow2(8)) % Pow2(8), data0 |-> data % Pow2(8)]

\* The backup with the two bytes of data taken from each other's half.
OptionByteBackup_data_swapped(o, data) ==
    [user |-> o["USER"], rdpr |-> o["RDPR"], wrpr1 |-> o["WRPR1"], wrpr0 |-> o["WRPR0"],
     data1 |-> data % Pow2(8), data0 |-> (data \div Pow2(8)) % Pow2(8)]

\* The locals of flash_write_option_byte_16_bits: the raw cells it backs up
\* and the two bytes of data.
OptionByteBackup(o, data) ==
    [user |-> o["USER"], rdpr |-> o["RDPR"], wrpr1 |-> o["WRPR1"], wrpr0 |-> o["WRPR0"],
     data1 |-> (data \div Pow2(8)) % Pow2(8), data0 |-> data % Pow2(8)]

flash_write_option_byte_16_bits(data) ==
    /\ pc = "idle"
    /\ call' = Enter("flash_write_option_byte_16_bits", 0, data)
    /\ pc' = "wob_wait0"
    /\ UNCHANGED <<FLASH_LENGTH_OVERRIDE, boots, saved, hwvars>>

flash_write_option_byte_16_bits_backup ==
    /\ pc = "wob_backup"
    /\ call' = [call EXCEPT
                   !.tmp = OptionByteBackup(ob, call.data),
                   !.trace = @ \o <<<<"read", "USER">>, <<"read", "RDPR">>,
                                    <<"read", "WRPR1">>, <<"read", "WRPR0">>>>]
    /\ pc' = "obe_opter"
    /\ UNCHANGED <<FLASH_LENGTH_OVERRIDE, boots, saved, hwvars>>

flash_OB_erase_OPTER == pc = "obe_opter" /\ WriteCTLR(ctlr \cup {"OPTER"}, "obe_strt")

\* flash_OB_erase going on to reset OPTER without the wait.
flash_OB_erase_STRT_nowait ==
    pc = "obe_strt" /\ WriteCTLR(ctlr \cup {"STRT"}, "obe_opter_reset")

flash_OB_erase_STRT == pc = "obe_strt" /\ WriteCTLR(ctlr \cup {"STRT"}, "obe_wait")

flash_OB_erase_OPTER_Reset == pc = "obe_opter_reset" /\ WriteCTLR(ctlr \ {"OPTER"}, "wob_optpg")

flash_write_option_byte_16_bits_OPTPG ==
    pc = "wob_optpg" /\ WriteCTLR(ctlr \cup {"OPTPG"}, "wob_user")

flash_write_option_byte_16_bits_USER ==
    pc = "wob_user" /\ StoreOB("USER", call.tmp.user, "wob_wait1")

flash_write_option_byte_16_bits_RDPR ==
    pc = "wob_rdpr" /\ StoreOB("RDPR", call.tmp.rdpr, "wob_wait2")

flash_write_option_byte_16_bits_WRPR0 ==
    pc = "wob_wrpr0" /\ StoreOB("WRPR0", call.tmp.wrpr0, "wob_wait3")

flash_write_option_byte_16_bits_WRPR1 ==
    pc = "wob_wrpr1" /\ StoreOB("WRPR1", call.tmp.wrpr1, "wob_wait4")

flash_write_option_byte_16_bits_Data1 ==
    pc = "wob_data1" /\ StoreOB("Data1", call.tmp.data1, "wob_wait5")

\* The store to Data0 followed at once by the reset of OPTPG.
flash_write_option_byte_16_bits_Data0_nowait ==
    pc = "wob_data0" /\ StoreOB("Data0", call.tmp.data0, "wob_optpg_reset")

flash_write_option_byte_16_bits_Data0 ==
    pc = "wob_data0" /\ StoreOB("Data0", call.tmp.data0, "wob_wait6")

flash_write_option_byte_16_bits_OPTPG_Reset ==
    pc = "wob_optpg_reset" /\ WriteCTLR(ctlr \ {"OPTPG"}, "done")

\* flash_read_option_byte_USER() ... flash_read_option_byte_DATA0()
flash_read_option_byte_call(cell) ==
    /\ pc = "idle"
    /\ call' = [Enter("flash_read_option_byte", 0, 0) EXCEPT
                   !.cell = cell, !.ret = flash_read_option_byte(cell)]
    /\ pc' = "done"
    /\ UNCHANGED <<FLASH_LENGTH_OVERRIDE, boots, saved, hwvars>>

OptionByteWriteSteps ==
    \/ flash_write_option_byte_16_bits_backup
    \/ flash_OB_erase_OPTER
    \/ flash_OB_erase_STRT
    \/ flash_OB_erase_OPTER_Reset
    \/ flash_write_option_byte_16_bits_OPTPG
    \/ flash_write_option_byte_16_bits_USER
    \/ flash_write_option_byte_16_bits_RDPR
    \/ flash_write_option_byte_16_bits_WRPR0
    \/ flash_write_option_byte_16_bits_WRPR1
    \/ flash_write_option_byte_16_bits_Data1
    \/ flash_write_option_byte_16_bits_Data0
    \/ flash_write_option_byte_16_bits_OPTPG_Reset

Next ==
    \/ \E d \in Data16 : flash_write_option_byte_16_bits(d)
    \/ OptionByteWriteSteps
    \/ \E c \in OBCells : flash_read_option_byte_call(c)
    \/ Returns("flash_read_option_byte_DATA_16", 0, flash_read_option_byte_DATA_16)
    \/ flash_unlock
    \/ flash_unlock_option_bytes
    \/ flash_lock
    \/ \E n \in PageOffsets : flash_erase_page(flash_calculate_runtime_address(n))
    \/ flash_erase_page_PER
    \/ flash_erase_page_ADDR
    \/ flash_erase_page_STRT
    \/ flash_erase_page_PER_Reset
    \/ \E n \in ProgOffsets, d \in Data16 :
          flash_program_16(flash_calculate_runtime_address(n), d)
    \/ flash_program_16_PG
    \/ flash_program_16_store
    \/ flash_program_16_PG_Reset
    \/ \E n \in ProgOffsets, b \in BytePairs :
          flash_program_2x8_bits(flash_calculate_runtime_address(n), b[1], b[2])
    \/ \E n \in FloatOffsets, f \in FloatValues :
          flash_program_float_value(flash_calculate_runtime_address(n), f)
    \/ \E n \in FloatOffsets :
          Returns("flash_read_float_value", flash_calculate_runtime_address(n),
                  flash_read_float_value(flash_calculate_runtime_address(n)))
    \/ SubCall
    \/ \E n \in ProgOffsets :
          Returns("flash_read_16_bits", flash_calculate_runtime_address(n),
                  flash_read_16_bits(flash_calculate_runtime_address(n)))
    \/ flash_wait_until_not_busy
    \/ HwComplete
    \/ Return

Spec == Init /\ [][Next]_vars

----------------------------------------------------------------------------
(* Power loss: the controller's registers come up in their reset state, the   *)
(* call that was running is gone with the operation the controller was busy   *)
(* with, the main flash and the option bytes keep what they hold.             *)

MaxPowerCycles == 1

\* Where in its page the application keeps its variable.
VarOffset == 10

PowerCycle ==
    /\ boots < MaxPowerCycles
    /\ boots' = boots + 1
    /\ ctlr' = {"LOCK"}
    /\ statr' = {}
    /\ addrReg' = 0
    /\ hw' = NoOp
    /\ pc' = "idle"
    /\ call' = NoCall
    /\ UNCHANGED <<FLASH_LENGTH_OVERRIDE, saved, flash, ob>>

\* The application of main under power loss: its write bracket, its read of
\* the variable, and erase and program calls of its own.
NextPower ==
    \/ PowerCycle
    \/ \E n \in PageOffsets, d \in Data16 :
          main_write(flash_calculate_runtime_address(n),
                     flash_calculate_runtime_address(n + VarOffset), d)
    \/ SubCall
    \/ \E n \in PageOffsets :
          Returns("flash_read_16_bits", flash_calculate_runtime_address(n + VarOffset),
                  flash_read_16_bits(flash_calculate_runtime_address(n + VarOffset)))
    \/ flash_unlock
    \/ flash_lock
    \/ \E n \in PageOffsets : flash_erase_page(flash_calculate_runtime_address(n))
    \/ flash_erase_page_PER
    \/ flash_erase_page_ADDR
    \/ flash_erase_page_STRT
    \/ flash_erase_page_PER_Reset
    \/ \E n \in PageOffsets, d \in Data16 :
          flash_program_16(flash_calculate_runtime_address(n + VarOffset), d)
    \/ flash_program_16_PG
    \/ flash_program_16_store
    \/ flash_program_16_PG_Reset
    \/ flash_wait_until_not_busy
    \/ HwComplete
    \/ Return

SpecPower == Init /\ [][NextPower]_vars

\* The option byte write under power loss.
NextPowerOB ==
    \/ PowerCycle
    \/ \E d \in Data16 : flash_write_option_byte_16_bits(d)
    \/ OptionByteWriteSteps
    \/ \E c \in OBCells : flash_read_option_byte_call(c)
    \/ flash_unlock
    \/ flash_unlock_option_bytes
    \/ flash_lock
    \/ flash_wait_until_not_busy
    \/ HwComplete
    \/ Return

SpecPowerOB == Init /\ [][NextPowerOB]_vars

----------------------------------------------------------------------------
(* Termination: the processor goes on executing the function it is in, and   *)
(* the controller finishes every operation it has started.                   *)

\* The next register access of the running function.
DriverStep ==
    \/ SubCall
    \/ flash_erase_page_PER
    \/ flash_erase_page_ADDR
    \/ flash_erase_page_STRT
    \/ flash_erase_page_PER_Reset
    \/ flash_program_16_PG
    \/ flash_program_16_store
    \/ flash_program_16_PG_Reset
    \/ OptionByteWriteSteps
    \/ flash_wait_until_not_busy

NextLive ==
    \/ flash_unlock
    \/ flash_unlock_option_bytes
    \/ flash_lock
    \/ flash_erase_page(flash_calculate_runtime_address(0))
    \/ \E d \in Data16 : flash_program_16(flash_calculate_runtime_address(VarOffset), d)
    \/ \E n \in FloatOffsets, f \in FloatValues :
          flash_program_float_value(flash_calculate_runtime_address(n), f)
    \/ \E d \in Data16 : flash_write_option_byte_16_bits(d)
    \/ DriverStep
    \/ HwComplete
    \/ Return

SpecLive ==
    /\ Init
    /\ [][NextLive]_vars
    /\ WF_vars(DriverStep)
    /\ WF_vars(HwComplete)

----------------------------------------------------------------------------
(* A caller that waits for the done flag: flash_wait_until_done between the   *)
(* erase and program calls that make the controller raise it.                *)

NextDone ==
    \/ flash_wait_until_done
    \/ flash_wait_until_done_loop
    \/ flash_is_done_clear
    \/ flash_unlock
    \/ flash_lock
    \/ \E n \in PageOffsets : flash_erase_page(flash_calculate_runtime_address(n))
    \/ flash_erase_page_PER
    \/ flash_erase_page_ADDR
    \/ flash_erase_page_STRT
    \/ flash_erase_page_PER_Reset
    \/ \E n \in PageOffsets, d \in Data16 :
          flash_program_16(flash_calculate_runtime_address(n + VarOffset), d)
    \/ flash_program_16_PG
    \/ flash_program_16_store
    \/ flash_program_16_PG_Reset
    \/ flash_wait_until_not_busy
    \/ HwComplete
    \/ Return

SpecDone == Init /\ [][NextDone]_vars

----------------------------------------------------------------------------
(* The address calculation on its own: every link-time length that leaves    *)
(* 1 .. MaxNvPages pages reserved, every offset into the reserved pages.     *)

MaxNvPages == 3

LinkLengths == {FlashCapacity - PageSize * k : k \in 1 .. MaxNvPages}

InitAddr ==
    /\ FLASH_LENGTH_OVERRIDE \in LinkLengths
    /\ ctlr = {"LOCK"}
    /\ statr = {}
    /\ addrReg = 0
    /\ flash = [w \in NvWordAddrs |-> ErasedWord]
    /\ ob = [c \in OBCells |-> Encode(255)]
    /\ hw = NoOp
    /\ pc = "idle"
    /\ call = NoCall
    /\ boots = 0
    /\ saved = NoSave

flash_calculate_runtime_address_call(n) ==
    Returns("flash_calculate_runtime_address", n, flash_calculate_runtime_address(n))

FLASH_PRECALCULATE_NONVOLATILE_ADDR_use(n) ==
    Returns("FLASH_PRECALCULATE_NONVOLATILE_ADDR", n, FLASH_PRECALCULATE_NONVOLATILE_ADDR(n))

NextAddr ==
    \/ \E n \in 0 .. (FlashCapacity - FLASH_LENGTH_OVERRIDE - 1) :
          flash_calculate_runtime_address_call(n)
    \/ \E n \in 0 .. (FlashCapacity - FLASH_LENGTH_OVERRIDE - 1) :
          FLASH_PRECALCULATE_NONVOLATILE_ADDR_use(n)
    \/ Return

SpecAddr == InitAddr /\ [][NextAddr]_vars

----------------------------------------------------------------------------
(* The option byte readers on their own: every raw 16-bit value in the cells *)

InitCodec ==
    /\ FLASH_LENGTH_OVERRIDE = DefaultLengthOverride
    /\ ctlr = {"LOCK"}
    /\ statr = {}
    /\ addrReg = 0
    /\ flash = [w \in NvWordAddrs |-> ErasedWord]
    /\ \E raw \in 0 .. (Pow2(16) - 1) : ob = [c \in OBCells |-> raw]
    /\ hw = NoOp
    /\ pc = "idle"
    /\ call = NoCall
    /\ boots = 0
    /\ saved = NoSave

NextCodec ==
    \/ \E c \in OBCells : flash_read_option_byte_call(c)
    \/ Returns("flash_read_option_byte_DATA_16", 0, flash_read_option_byte_DATA_16)
    \/ Return

SpecCodec == InitCodec /\ [][NextCodec]_vars

----------------------------------------------------------------------------
(* Properties *)

Finished(op) == pc = "done" /\ call.op = op

WasLocked == "LOCK" \in call.pre.ctlr

WasUnlocked == "LOCK" \notin call.pre.ctlr

OptionBytesWereUnlocked == WasUnlocked /\ "OBWRE" \in call.pre.ctlr

\* C1: a flash_erase_page or flash_program_16 called with the lock bit set
\* returns at once, has started nothing and leaves every flash word as it was.
C1_LockedCallsChangeNothing ==
    (pc # "idle" /\ call.op \in {"flash_erase_page", "flash_program_16"} /\ WasLocked)
        => (pc = "done" /\ flash = call.pre.flash /\ hw = NoOp /\ call.trace = <<>>)

\* C1 happens: a locked erase of a page that holds a programmed word.
C1_Witness ==
    /\ Finished("flash_erase_page")
    /\ WasLocked
    /\ \E w \in PageWords(call.addr) : flash[w] # ErasedWord

\* A write to the control register or a store to an option byte cell.
MutatingAccess(entry) == entry[1] \in {"CTLR", "OB"}

\* C2 (as claimed): flash_write_option_byte_16_bits called with the lock bit
\* set issues no control register write and no store to an option byte cell,
\* and leaves the six cells as they were.
C2_LockedOptionWriteIsSilent ==
    (call.op = "flash_write_option_byte_16_bits" /\ WasLocked)
        => /\ \A i \in 1 .. Len(call.trace) : ~MutatingAccess(call.trace[i])
           /\ ob = call.pre.ob

RestoredCells == {"USER", "RDPR", "WRPR0", "WRPR1"}

\* C3: a completed flash_write_option_byte_16_bits, called unlocked with the
\* option bytes unlocked and with valid USER, RDPR, WRPR0 and WRPR1 cells,
\* leaves the decoded value of each of these four as it was before the call.
C3_OptionWriteKeepsOtherFields ==
    (/\ Finished("flash_write_option_byte_16_bits")
     /\ OptionBytesWereUnlocked
     /\ \A c \in RestoredCells : ValidCell(call.pre.ob[c]))
        => \A c \in RestoredCells :
              flash_read_option_byte(c) = flash_dechecksum(call.pre.ob[c])

\* C3 happens: the write went through the erase (the data cells changed) on a
\* configuration whose WRPR0 and WRPR1 differ.
C3_Witness ==
    /\ Finished("flash_write_option_byte_16_bits")
    /\ OptionBytesWereUnlocked
    /\ \A c \in RestoredCells : ValidCell(call.pre.ob[c])
    /\ ob["Data1"] # call.pre.ob["Data1"]
    /\ flash_read_option_byte("WRPR0") # flash_read_option_byte("WRPR1")

PageWasErased(a) == \A w \in PageWords(PageOf(a)) : call.pre.flash[w] = ErasedWord

\* C5: after flash_program_16(addr, d), called unlocked on an address of an
\* erased page, flash_read_16_bits(addr) is d.
C5_ProgramReadRoundTrip ==
    (Finished("flash_program_16") /\ WasUnlocked /\ PageWasErased(call.addr))
        => flash_read_16_bits(call.addr) = call.data

\* C5 happens: 0xBEEF programmed into an erased page.
C5_Witness ==
    /\ Finished("flash_program_16")
    /\ WasUnlocked
    /\ PageWasErased(call.addr)
    /\ call.data = 48879
    /\ flash_read_16_bits(call.addr) = 48879

\* C6: after flash_erase_page(addr), called unlocked on the start of a
\* reserved page, every word of that page reads 0xFFFF.
C6_ErasedPageReadsAllOnes ==
    (Finished("flash_erase_page") /\ WasUnlocked)
        => \A w \in PageWords(call.addr) : flash_read_16_bits(w) = ErasedWord

\* C6 happens: the erased page held a programmed word, and holds 32 words.
C6_Witness ==
    /\ Finished("flash_erase_page")
    /\ WasUnlocked
    /\ Cardinality(PageWords(call.addr)) = PageSize \div 2
    /\ \E w \in PageWords(call.addr) : call.pre.flash[w] # ErasedWord

AddressCalls == {"flash_calculate_runtime_address", "FLASH_PRECALCULATE_NONVOLATILE_ADDR"}

\* C7: for every offset into the reserved pages and every link-time length,
\* the function and the macro give the same address.
C7_MacroAndFunctionAgree ==
    /\ Finished("flash_calculate_runtime_address")
          => call.ret = FLASH_PRECALCULATE_NONVOLATILE_ADDR(call.addr)
    /\ Finished("FLASH_PRECALCULATE_NONVOLATILE_ADDR")
          => call.ret = flash_calculate_runtime_address(call.addr)

\* C7 happens: the function called on the last byte of a two page region.
C7_Witness ==
    /\ Finished("flash_calculate_runtime_address")
    /\ FLASH_LENGTH_OVERRIDE = FlashCapacity - 2 * PageSize
    /\ call.addr = 2 * PageSize - 1
    /\ call.ret = FLASH_BASE + FlashCapacity - 1

HighByteIsNotInverse(raw) == raw \div 256 # 255 - (raw % 256)

\* C10: each of the six readers returns 0 for a cell whose high byte is not
\* the bitwise NOT of its low byte.
C10_ChecksumRejection ==
    (Finished("flash_read_option_byte") /\ HighByteIsNotInverse(ob[call.cell]))
        => call.ret = 0

\* C10 happens: an erased cell (0xFFFF) read by the WRPR0 reader.
C10_Witness ==
    /\ Finished("flash_read_option_byte")
    /\ call.cell = "WRPR0"
    /\ ob["WRPR0"] = ErasedWord
    /\ call.ret = 0

\* C11: after flash_program_float_value(addr, v), called unlocked on an
\* aligned address whose two halfwords lie in an erased page,
\* flash_read_float_value(addr) returns the four bytes of v; the halfword at
\* addr is v's u16[0] and the halfword at addr + 2 is v's u16[1].
C11_FloatRoundTrip ==
    (Finished("flash_program_float_value") /\ WasUnlocked /\ PageWasErased(call.tmp.addr))
        => /\ flash_read_float_value(call.tmp.addr) = call.tmp.value
           /\ flash_read_16_bits(call.tmp.addr) =
                  call.tmp.value[1] + Pow2(8) * call.tmp.value[2]
           /\ flash_read_16_bits(call.tmp.addr + 2) =
                  call.tmp.value[3] + Pow2(8) * call.tmp.value[4]

\* C11 happens: 0xDEADBEEF written into an erased page and read back, 0xBEEF
\* at addr and 0xDEAD at addr + 2.
C11_Witness ==
    /\ Finished("flash_program_float_value")
    /\ WasUnlocked
    /\ PageWasErased(call.tmp.addr)
    /\ call.tmp.value = <<239, 190, 173, 222>>
    /\ flash_read_float_value(call.tmp.addr) = <<239, 190, 173, 222>>
    /\ flash_read_16_bits(call.tmp.addr) = 48879
    /\ flash_read_16_bits(call.tmp.addr + 2) = 57005

\* C12: what the write bracket of main stored at A (unlock, erase of A's page,
\* program of d at A, lock) is what A holds, and what flash_read_16_bits(A)
\* returns, for as long as no unlock follows: through power cycles, reads, and
\* erase and program calls made while locked.
C12_SavedValuePersists ==
    saved.valid
        => /\ flash[saved.addr] = saved.data
           /\ (Finished("flash_read_16_bits") /\ call.addr = saved.addr)
                  => call.ret = saved.data

\* C12 happens: after the bracket stored 0xBEEF and the power was cycled, the
\* variable is read, with nothing programmed since the power came back.
C12_Witness ==
    /\ boots > 0
    /\ saved.valid
    /\ saved.data = 48879
    /\ ~flash_is_done
    /\ Finished("flash_read_16_bits")
    /\ call.addr = saved.addr
    /\ call.ret = 48879

\* C13: the lock bit goes from clear to set only in the step that is
\* flash_lock, whatever erase, program, option byte write or read runs in
\* between; and it is set whenever flash_lock has just returned.
C13_OnlyLockRelocks ==
    [][ /\ ("LOCK" \notin ctlr /\ "LOCK" \in ctlr')
            => (pc = "idle" /\ pc' = "done" /\ call'.op = "flash_lock")
        /\ (pc = "idle" /\ pc' = "done" /\ call'.op = "flash_lock")
            => "LOCK" \in ctlr' ]_vars

\* C13 happens: flash_lock has returned, called on an unlocked controller
\* after a word of the main flash was programmed; the lock bit is set.
C13_Witness ==
    /\ Finished("flash_lock")
    /\ WasUnlocked
    /\ \E w \in NvWordAddrs : flash[w] # ErasedWord
    /\ "LOCK" \in ctlr

\* C14: the main flash lock and the option byte lock open separately, each by
\* KEY1 then KEY2 written to its own key register: the lock bit is cleared
\* only by flash_unlock, the option byte write enable is set only by
\* flash_unlock_option_bytes, and an option byte cell changes only in a step
\* taken with the lock bit clear and the option byte write enable set.
C14_OptionBytesNeedBothKeys ==
    [][ /\ (ob' # ob) => ("LOCK" \notin ctlr /\ "OBWRE" \in ctlr)
        /\ ("OBWRE" \notin ctlr /\ "OBWRE" \in ctlr')
             => /\ call'.op = "flash_unlock_option_bytes"
                /\ call'.trace = <<<<"OBKEYR", FLASH_KEY1>>, <<"OBKEYR", FLASH_KEY2>>>>
        /\ ("LOCK" \in ctlr /\ "LOCK" \notin ctlr')
             => /\ call'.op = "flash_unlock"
                /\ call'.trace = <<<<"KEYR", FLASH_KEY1>>, <<"KEYR", FLASH_KEY2>>>> ]_vars

\* C14 happens: an option byte write has run to its end after flash_unlock
\* alone, and no cell has changed.
C14_Witness ==
    /\ Finished("flash_write_option_byte_16_bits")
    /\ WasUnlocked
    /\ "OBWRE" \notin call.pre.ctlr
    /\ call.data = 48879
    /\ ob = call.pre.ob

\* The kind of a bus access, without the value it carries.
Access(entry) ==
    IF entry[1] \in {"read", "OB"} THEN <<entry[1], entry[2]>> ELSE <<entry[1]>>

\* C15: flash_write_option_byte_16_bits waits for not busy, reads the raw
\* USER, RDPR, WRPR1 and WRPR0 cells, erases the block (OPTER set, start, wait,
\* OPTER reset), sets OPTPG, stores the four values read to USER, RDPR, WRPR0,
\* WRPR1, then a halfword to Data1 and one to Data0, waiting for not busy
\* after each store, and resets OPTPG last; OPTPG is set for as long as the
\* controller is busy with a store.
C15_OptionWriteOrder ==
    /\ Finished("flash_write_option_byte_16_bits")
        => /\ [i \in DOMAIN call.trace |-> Access(call.trace[i])] =
                  << <<"wait_until_not_busy">>,
                     <<"read", "USER">>, <<"read", "RDPR">>,
                     <<"read", "WRPR1">>, <<"read", "WRPR0">>,
                     <<"CTLR">>, <<"CTLR">>, <<"wait_until_not_busy">>, <<"CTLR">>,
                     <<"CTLR">>,
                     <<"OB", "USER">>, <<"wait_until_not_busy">>,
                     <<"OB", "RDPR">>, <<"wait_until_not_busy">>,
                     <<"OB", "WRPR0">>, <<"wait_until_not_busy">>,
                     <<"OB", "WRPR1">>, <<"wait_until_not_busy">>,
                     <<"OB", "Data1">>, <<"wait_until_not_busy">>,
                     <<"OB", "Data0">>, <<"wait_until_not_busy">>,
                     <<"CTLR">> >>
           /\ "OPTER" \in call.trace[6][2]
           /\ "STRT" \in call.trace[7][2]
           /\ "OPTER" \notin call.trace[9][2]
           /\ "OPTPG" \in call.trace[10][2]
           /\ "OPTPG" \notin call.trace[23][2]
           /\ call.trace[11][3] = call.pre.ob["USER"]
           /\ call.trace[13][3] = call.pre.ob["RDPR"]
           /\ call.trace[15][3] = call.pre.ob["WRPR0"]
           /\ call.trace[17][3] = call.pre.ob["WRPR1"]
    /\ hw.kind = "ob_program" => "OPTPG" \in ctlr

\* C15 happens: the write of 0xBEEF has run to its end with both locks open,
\* and the data cells hold its bytes.
C15_Witness ==
    /\ Finished("flash_write_option_byte_16_bits")
    /\ OptionBytesWereUnlocked
    /\ call.data = 48879
    /\ Len(call.trace) = 23
    /\ flash_read_option_byte_DATA_16 = 48879

\* C16: after flash_write_option_byte_16_bits(v) has run with both locks open
\* from a block whose six cells are valid, the six cells are valid, and the
\* halfwords the driver stored to Data1 and Data0 have the inverse of their
\* low byte in their high byte.
C16_StoresCarryInverse ==
    (/\ Finished("flash_write_option_byte_16_bits")
     /\ OptionBytesWereUnlocked
     /\ \A c \in OBCells : ValidCell(call.pre.ob[c]))
        => /\ \A c \in OBCells : ValidCell(ob[c])
           /\ \A i \in DOMAIN call.trace :
                 (call.trace[i][1] = "OB" /\ call.trace[i][2] \in {"Data1", "Data0"})
                     => ValidCell(call.trace[i][3])

\* The backup variable that holds the cell for the length of a write.
BackupOf == [USER |-> "user", RDPR |-> "rdpr", WRPR0 |-> "wrpr0", WRPR1 |-> "wrpr1"]

\* The value v is neither in cell c nor in the backup of a running write.
Lost(c, v) ==
    /\ ob[c] # v
    /\ ~(/\ call.op = "flash_write_option_byte_16_bits"
         /\ call.tmp # <<>>
         /\ call.tmp[BackupOf[c]] = v)

\* Values a USER, RDPR or WRPR cell can hold before a write, with a data byte
\* other than 0xFF (the byte a write gives a cell it read erased).
PreCallValues == {o[c] : o \in LegalObConfigs, c \in RestoredCells} \ {Encode(255)}

\* C17: once a power loss between the block erase and the restore stores of
\* flash_write_option_byte_16_bits has left a USER, RDPR or WRPR cell without
\* its pre-call value, no step of the driver brings that value back: a value
\* that is neither in the cell nor in the backup of a running write stays so.
C17_LostCellsStayLost ==
    [][ \A c \in RestoredCells, v \in PreCallValues : Lost(c, v) => Lost(c, v)' ]_vars

\* C17 happens: the power failed during a write, leaving USER erased, and a
\* later complete write with both locks open has stored the erased value's
\* byte, 0xFF, in USER instead of the configuration the device started with.
C17_Witness ==
    /\ boots > 0
    /\ Finished("flash_write_option_byte_16_bits")
    /\ OptionBytesWereUnlocked
    /\ call.pre.ob["USER"] = ErasedWord
    /\ call.pre.ob["WRPR1"] = ErasedWord
    /\ ob["USER"] = Encode(255)
    /\ \A o \in LegalObConfigs : o["USER"] # ob["USER"]

\* C18: flash_erase_page(start_addr), called unlocked, accesses the bus in
\* this order and no other: wait for not busy, CTLR with PER set (and the
\* start bit clear), ADDR = start_addr, CTLR with STRT set, wait for not busy,
\* CTLR with PER reset; the page erase the controller is busy with is the one
\* of start_addr.
C18_ErasePageOrder ==
    /\ (Finished("flash_erase_page") /\ WasUnlocked)
        => /\ Len(call.trace) = 6
           /\ call.trace[1] = <<"wait_until_not_busy">>
           /\ call.trace[2][1] = "CTLR"
           /\ "PER" \in call.trace[2][2] /\ "STRT" \notin call.trace[2][2]
           /\ call.trace[3] = <<"ADDR", call.addr>>
           /\ call.trace[4][1] = "CTLR"
           /\ "STRT" \in call.trace[4][2] /\ "PER" \in call.trace[4][2]
           /\ call.trace[5] = <<"wait_until_not_busy">>
           /\ call.trace[6][1] = "CTLR"
           /\ "PER" \notin call.trace[6][2]
    /\ (call.op = "flash_erase_page" /\ hw.kind = "page_erase")
        => (hw.addr = call.addr /\ addrReg = call.addr)

\* C18 happens: an unlocked flash_erase_page has run to its end on a page
\* that held a programmed word, after ADDR held another page's address.
C18_Witness ==
    /\ Finished("flash_erase_page")
    /\ WasUnlocked
    /\ Len(call.trace) = 6
    /\ \E w \in PageWords(call.addr) : call.pre.flash[w] # ErasedWord
    /\ \A w \in PageWords(call.addr) : flash[w] = ErasedWord
    /\ \E w \in NvWordAddrs \ PageWords(call.addr) : flash[w] # ErasedWord

\* C19: flash_program_16(addr, data), called unlocked, accesses the bus in
\* this order and no other: wait for not busy, CTLR with PG set, the store of
\* data at addr, wait for not busy, CTLR with PG reset; PG is set when the
\* store is made and for as long as the controller is busy programming.
C19_ProgramOrder ==
    /\ (Finished("flash_program_16") /\ WasUnlocked)
        => /\ Len(call.trace) = 5
           /\ call.trace[1] = <<"wait_until_not_busy">>
           /\ call.trace[2][1] = "CTLR" /\ "PG" \in call.trace[2][2]
           /\ call.trace[3] = <<"store", call.addr, call.data>>
           /\ call.trace[4] = <<"wait_until_not_busy">>
           /\ call.trace[5][1] = "CTLR" /\ "PG" \notin call.trace[5][2]
    /\ (pc = "prog_store" /\ "LOCK" \notin ctlr) => "PG" \in ctlr
    /\ hw.kind = "program" => "PG" \in ctlr

\* C19 happens: an unlocked flash_program_16 of 0xBEEF has run to its end and
\* the word holds 0xBEEF.
C19_Witness ==
    /\ Finished("flash_program_16")
    /\ WasUnlocked
    /\ Len(call.trace) = 5
    /\ call.trace[3] = <<"store", call.addr, 48879>>
    /\ flash[call.addr] = 48879

\* The bus accesses that write: to a register, to the flash, to an option byte.
WriteAccesses == {"CTLR", "ADDR", "store", "OB", "KEYR", "OBKEYR"}

\* C20: no step of a driver function writes a register, the flash or an
\* option byte cell while the busy flag is set, and the busy flag is clear
\* whenever flash_erase_page, flash_program_16 or
\* flash_write_option_byte_16_bits returns.
C20_NoWriteWhileBusy ==
    [][ /\ (\E i \in DOMAIN call'.trace :
               /\ (pc = "idle" \/ i > Len(call.trace))
               /\ call'.trace[i][1] \in WriteAccesses)
            => ~flash_is_busy
        /\ (/\ pc' = "done"
            /\ call'.op \in {"flash_erase_page", "flash_program_16",
                             "flash_write_option_byte_16_bits"})
            => "BSY" \notin statr' ]_vars

\* C20 happens: the driver waits in flash_OB_erase while the controller is
\* busy with the erase of the option byte block.
C20_Witness ==
    /\ pc = "obe_wait"
    /\ flash_is_busy
    /\ hw.kind = "ob_erase"

\* C23: from its call to its return, in either lock state, flash_erase_page
\* leaves every flash word outside the 64-byte page that starts at its
\* argument as it was, flash_program_16 leaves every flash word other than
\* the one at its argument as it was, and both leave every option byte cell
\* as it was.
C23_EraseAndProgramFrame ==
    /\ call.op = "flash_erase_page"
        => /\ \A w \in NvWordAddrs \ PageWords(call.addr) : flash[w] = call.pre.flash[w]
           /\ ob = call.pre.ob
    /\ call.op = "flash_program_16"
        => /\ \A w \in NvWordAddrs \ {call.addr} : flash[w] = call.pre.flash[w]
           /\ ob = call.pre.ob

\* C23 happens: an unlocked flash_program_16 has changed its word while
\* another word, programmed before, holds what it held.
C23_Witness ==
    /\ Finished("flash_program_16")
    /\ WasUnlocked
    /\ flash[call.addr] # call.pre.flash[call.addr]
    /\ \E w \in NvWordAddrs \ {call.addr} :
          flash[w] # ErasedWord /\ flash[w] = call.pre.flash[w]

\* The bits of CTLR that select what a start bit or a store does.
ModeBits == {"PER", "PG", "OPTER", "OPTPG"}

\* C24: when flash_erase_page, flash_program_16 or
\* flash_write_option_byte_16_bits has returned, and whenever the caller is
\* between calls, none of PER, PG, OPTER, OPTPG is set in CTLR, whether the
\* call was made locked or unlocked.
C24_NoModeBitLeftSet ==
    (\/ pc = "idle"
     \/ Finished("flash_erase_page")
     \/ Finished("flash_program_16")
     \/ Finished("flash_write_option_byte_16_bits"))
        => ctlr \cap ModeBits = {}

\* C24 happens: an unlocked flash_erase_page that wrote CTLR with PER set has
\* returned with no mode bit set.
C24_Witness ==
    /\ Finished("flash_erase_page")
    /\ WasUnlocked
    /\ Len(call.trace) = 6
    /\ "PER" \in call.trace[4][2]
    /\ ctlr \cap ModeBits = {}

\* C22: flash_wait_until_done leaves its loop only in a state where the busy
\* flag is clear and the done flag is set, and when it has returned the done
\* flag is clear (and the busy flag still is).
C22_WaitUntilDone ==
    /\ (pc = "wud_clear" /\ call.op = "flash_wait_until_done")
        => (~flash_is_busy /\ flash_is_done /\ call.tmp.statr = {"EOP"})
    /\ Finished("flash_wait_until_done")
        => /\ ~flash_is_done
           /\ ~flash_is_busy
           /\ call.tmp.statr = {"EOP"}
           /\ call.trace = <<<<"wait_until_done">>, <<"STATR", {"EOP"}>>>>

\* C22 happens: flash_wait_until_done has returned after a word was
\* programmed, and the done flag the programming raised is clear.
C22_Witness ==
    /\ Finished("flash_wait_until_done")
    /\ \E w \in NvWordAddrs : flash[w] = 48879
    /\ call.tmp.statr = {"EOP"}
    /\ ~flash_is_done

\* The functions that wait for the controller.
WaitingCalls ==
    {"flash_erase_page", "flash_program_16", "flash_program_float_value",
     "flash_write_option_byte_16_bits"}

\* C21: with the controller finishing every operation it starts, every call
\* of flash_erase_page, flash_program_16, flash_program_float_value and
\* flash_write_option_byte_16_bits returns; and a wait is left only in a step
\* taken with the busy flag clear, so a call whose wait never sees the flag
\* clear never returns.
C21_CallsReturn ==
    /\ \A op \in WaitingCalls : (call.op = op) ~> Finished(op)
    /\ [][(pc \in DOMAIN AfterWait /\ pc' # pc) => ~flash_is_busy]_vars

\* C21 happens: an unlocked flash_program_float_value has returned after its
\* two programming operations, each waited for.
C21_Witness ==
    /\ Finished("flash_program_float_value")
    /\ WasUnlocked
    /\ Len(call.trace) = 10
    /\ flash_is_done

====
